---- MODULE Spec2Model ----
(***************************************************************************)
(* Model of scripts/download_rns.py: the text normalizer (clean_text), the *)
(* ticker extractor, the announcement classifier, the per-site pattern     *)
(* cascades, the feed fetcher and the near-duplicate filter.               *)
(*                                                                         *)
(* Text is a sequence of one-character strings, so that substring search,  *)
(* lowercasing, splitting and prefix tests are computed, not assumed.      *)
(***************************************************************************)
EXTENDS Integers, Sequences, FiniteSets, TLC

VARIABLES
    pc,        \* position of the driver of the specification in use
    raw,       \* clean_text: the text handed to the first call
    once,      \* clean_text(raw)
    twice,     \* clean_text(clean_text(raw))
    title,     \* the title handed to the classifier / the ticker extractor
    content,   \* the body text handed with it
    rns_type,  \* what classify_announcement returned
    company_info,  \* what extract_company_ticker returned
    source,    \* the source function being run
    limit,     \* its item cap
    page,      \* what the fetched page or feed holds
    pat,       \* index of the next pattern of the cascade
    records,   \* the source function's local record list
    tried,     \* the patterns applied so far, in order
    fallback_ran,  \* the loose fallback was entered
    result,    \* the list the source function returned
    all_records,     \* the list handed to remove_similar_duplicates
    unique_records,  \* its accepted records so far
    idx,             \* index of the record the loop is at
    similarity_threshold, \* the threshold, as a fraction num/den
    rerun,         \* remove_similar_duplicates applied to its own output
    args_sources,  \* main: the names given with --sources
    use_sources,   \* main: the sources to use
    step,          \* main: index of the source block control is at
    attempted,     \* the source functions called so far, in call order
    returned,      \* what each call returned, in call order
    save_calls,    \* the lists save_with_metadata was called with
    out_dir_made,  \* the output directory exists
    out_files      \* the files written under it, each a list of lines

normVars == <<raw, once, twice>>
enrichVars == <<title, content, rns_type, company_info>>
scrapeVars == <<source, limit, page, pat, records, tried, fallback_ran, result>>
dedupVars == <<all_records, unique_records, idx, similarity_threshold, rerun>>
mainVars == <<args_sources, use_sources, step, attempted, returned,
              save_calls, out_dir_made, out_files>>
vars == <<pc, normVars, enrichVars, scrapeVars, dedupVars, mainVars>>

(***************************************************************************)
(* Characters and generic sequence helpers                                 *)
(***************************************************************************)
UpperSeq == <<"A","B","C","D","E","F","G","H","I","J","K","L","M",
              "N","O","P","Q","R","S","T","U","V","W","X","Y","Z">>
LowerSeq == <<"a","b","c","d","e","f","g","h","i","j","k","l","m",
              "n","o","p","q","r","s","t","u","v","w","x","y","z">>
Upper == {UpperSeq[i] : i \in 1..26}

\* str.lower() on one ASCII character
LowerChar(c) ==
    IF c \in Upper THEN LowerSeq[CHOOSE i \in 1..26 : UpperSeq[i] = c] ELSE c

\* str.lower()
lower(s) == [i \in 1..Len(s) |-> LowerChar(s[i])]

\* the characters Python's \s and str.split()/str.strip() treat as whitespace,
\* among those the model's texts use
Whitespace == {" ", "\n", "\t"}

\* s[i:] and s[:i] with 1-based i
From(s, i) == SubSeq(s, i, Len(s))
Upto(s, i) == SubSeq(s, 1, i)

\* s.startswith(p)
startswith(s, p) == Len(s) >= Len(p) /\ SubSeq(s, 1, Len(p)) = p

\* p occurs in s at position i
OccursAt(s, p, i) == i + Len(p) - 1 <= Len(s) /\ SubSeq(s, i, i + Len(p) - 1) = p

\* Python's `p in s` for strings
Contains(s, p) == \E i \in 1..(Len(s) - Len(p) + 1) : OccursAt(s, p, i)

Max(S) == CHOOSE x \in S : \A y \in S : y <= x
Min(S) == CHOOSE x \in S : \A y \in S : x <= y

RECURSIVE Flatten(_)
\* concatenation of a sequence of texts
Flatten(ss) == IF ss = <<>> THEN <<>> ELSE Head(ss) \o Flatten(Tail(ss))

\* all sequences over S of length 0..n
SeqsUpTo(S, n) == UNION {[1..k -> S] : k \in 0..n}

(***************************************************************************)
(* clean_text                                                              *)
(***************************************************************************)
\* html.entities.html5 restricted to the names the letters a l m n p t spell:
\* the entity names (with their semicolon where the table has it)
Html5Names == {
    <<"a","m","p">>, <<"a","m","p",";">>, <<"l","t">>, <<"l","t",";">>,
    <<"a","p",";">>, <<"l","a","p",";">>, <<"l","a","t",";">>, <<"l","l",";">>,
    <<"l","n","a","p",";">>, <<"m","a","l","t",";">>, <<"m","a","p",";">>,
    <<"m","p",";">>, <<"n","a","p",";">>, <<"n","l","t",";">>, <<"p","m",";">> }

\* html5[name]: the decoded text; code points outside ASCII are one character
html5(name) ==
    CASE name \in {<<"a","m","p">>, <<"a","m","p",";">>} -> <<"&">>
      [] name \in {<<"l","t">>, <<"l","t",";">>}         -> <<"<">>
      [] name = <<"a","p",";">>                          -> <<"U+2248">>
      [] name = <<"l","a","p",";">>                      -> <<"U+2A85">>
      [] name = <<"l","a","t",";">>                      -> <<"U+2AAB">>
      [] name = <<"l","l",";">>                          -> <<"U+226A">>
      [] name = <<"l","n","a","p",";">>                  -> <<"U+2A89">>
      [] name = <<"m","a","l","t",";">>                  -> <<"U+2720">>
      [] name = <<"m","a","p",";">>                      -> <<"U+21A6">>
      [] name = <<"m","p",";">>                          -> <<"U+2213">>
      [] name = <<"n","a","p",";">>                      -> <<"U+2249">>
      [] name = <<"n","l","t",";">>                      -> <<"U+226E">>
      [] name = <<"p","m",";">>                          -> <<"U+00B1">>

\* the characters [^\t\n\f <&#;] of the character-reference pattern
NameChar(c) == c \notin {"\t", "\n", "\f", " ", "<", "&", "#", ";"}

RECURSIVE NameRun(_, _, _)
\* length of the greedy run [^\t\n\f <&#;]{1,32} starting at s[i]
NameRun(s, i, n) ==
    IF n < 32 /\ i <= Len(s) /\ NameChar(s[i]) THEN NameRun(s, i + 1, n + 1) ELSE n

\* html._replace_charref for a named reference (s is the text after "&")
replace_charref(s) ==
    IF s \in Html5Names THEN html5(s)
    ELSE LET xs == {x \in 2..(Len(s) - 1) : Upto(s, x) \in Html5Names}
         IN  IF xs # {} THEN html5(Upto(s, Max(xs))) \o From(s, Max(xs) + 1)
             ELSE <<"&">> \o s

RECURSIVE UnescapeFrom(_, _)
\* html.unescape, scanning from s[i]: &name;? is replaced, all else is kept
UnescapeFrom(s, i) ==
    IF i > Len(s) THEN <<>>
    ELSE IF s[i] = "&" /\ NameRun(s, i + 1, 0) > 0
         THEN LET r   == NameRun(s, i + 1, 0)
                  semi == IF i + r + 1 <= Len(s) /\ s[i + r + 1] = ";" THEN 1 ELSE 0
                  ref == SubSeq(s, i + 1, i + r + semi)
              IN  replace_charref(ref) \o UnescapeFrom(s, i + r + semi + 1)
         ELSE <<s[i]>> \o UnescapeFrom(s, i + 1)

unescape(s) == UnescapeFrom(s, 1)

RECURSIVE StripTagsFrom(_, _)
\* re.sub(r"<[^>]+>", "", s): "<", one or more characters other than ">", ">"
StripTagsFrom(s, i) ==
    IF i > Len(s) THEN <<>>
    ELSE LET closes == {j \in (i + 1)..Len(s) : s[j] = ">"}
         IN  IF s[i] = "<" /\ closes # {} /\ Min(closes) >= i + 2
             THEN StripTagsFrom(s, Min(closes) + 1)
             ELSE <<s[i]>> \o StripTagsFrom(s, i + 1)

StripTags(s) == StripTagsFrom(s, 1)

RECURSIVE CollapseFrom(_, _)
\* re.sub(r"\s+", " ", s): every run of whitespace becomes one space
CollapseFrom(s, i) ==
    IF i > Len(s) THEN <<>>
    ELSE IF s[i] \in Whitespace
         THEN IF i > 1 /\ s[i - 1] \in Whitespace
              THEN CollapseFrom(s, i + 1)
              ELSE <<" ">> \o CollapseFrom(s, i + 1)
         ELSE <<s[i]>> \o CollapseFrom(s, i + 1)

CollapseWhitespace(s) == CollapseFrom(s, 1)

\* str.strip()
strip(s) ==
    LET keep == {i \in 1..Len(s) : s[i] \notin Whitespace}
    IN  IF keep = {} THEN <<>> ELSE SubSeq(s, Min(keep), Max(keep))

RECURSIVE ReplaceFrom(_, _, _, _)
\* str.replace(old, new): non-overlapping occurrences, left to right
ReplaceFrom(s, old, new, i) ==
    IF i > Len(s) THEN <<>>
    ELSE IF OccursAt(s, old, i)
         THEN new \o ReplaceFrom(s, old, new, i + Len(old))
         ELSE <<s[i]>> \o ReplaceFrom(s, old, new, i + 1)

replace(s, old, new) == ReplaceFrom(s, old, new, 1)

\* clean_text with the whitespace pass ahead of the artifact pass, as written
clean_text(text) ==
    IF text = <<>> THEN <<>>
    ELSE replace(replace(strip(CollapseWhitespace(StripTags(unescape(text)))),
                         <<"\\", "n">>, <<" ">>),
                 <<"\\", "t">>, <<" ">>)

(***************************************************************************)
(* Specification SpecNorm: clean_text applied to a text, then to its own   *)
(* output                                                                  *)
(***************************************************************************)
\* longest input, in fragments
MaxFrags == 3

\* the pieces raw texts are assembled from
NormFragments == {
    <<"&","a","m","p",";">>, <<"&","l","t",";">>, <<"l","t",";">>,
    <<"<","p",">">>, <<"m">>, <<" ">>, <<"\n">>, <<"\\","n">>, <<"\\","t">> }

NormIdle == raw = <<>> /\ once = <<>> /\ twice = <<>>

EmptyInfo == [ticker |-> <<>>, company_name |-> <<>>]

EnrichIdle ==
    title = <<>> /\ content = <<>> /\ rns_type = "" /\ company_info = EmptyInfo

NoPage == [matches |-> <<>>, all_links |-> <<>>, entries |-> <<>>]

ScrapeIdle ==
    /\ source = "" /\ limit = 0 /\ page = NoPage /\ pat = 1
    /\ records = <<>> /\ tried = <<>> /\ fallback_ran = FALSE /\ result = <<>>

DedupIdle ==
    /\ all_records = <<>> /\ unique_records = <<>> /\ idx = 1 /\ rerun = <<>>
    /\ similarity_threshold = [num |-> 0, den |-> 1]

MainIdle ==
    /\ args_sources = <<>> /\ use_sources = <<>> /\ step = 1
    /\ attempted = <<>> /\ returned = <<>> /\ save_calls = <<>>
    /\ out_dir_made = FALSE /\ out_files = <<>>

InitNorm ==
    /\ pc = "norm_start"
    /\ raw \in {Flatten(fs) : fs \in SeqsUpTo(NormFragments, MaxFrags)}
    /\ once = <<>>
    /\ twice = <<>>
    /\ EnrichIdle /\ ScrapeIdle /\ DedupIdle /\ MainIdle

\* title = clean_text(match[1])
NormFirst ==
    /\ pc = "norm_start"
    /\ once' = clean_text(raw)
    /\ pc' = "norm_once"
    /\ UNCHANGED <<raw, twice, enrichVars, scrapeVars, dedupVars, mainVars>>

\* the normalizer applied to already-normalized text
NormSecond ==
    /\ pc = "norm_once"
    /\ twice' = clean_text(once)
    /\ pc' = "norm_twice"
    /\ UNCHANGED <<raw, once, enrichVars, scrapeVars, dedupVars, mainVars>>

NextNorm == NormFirst \/ NormSecond

SpecNorm == InitNorm /\ [][NextNorm]_vars

\* C1: the normalizer is idempotent: clean_text applied to its own output
\* returns that output unchanged, for every input text.
C1_Idempotent == pc = "norm_twice" => twice = once

(***************************************************************************)
(* classify_announcement                                                   *)
(***************************************************************************)
\* the keyword table, in the insertion order the loop iterates it
categories == <<
    [category |-> "results", keywords |-> <<
        <<"r","e","s","u","l","t","s">>,
        <<"e","a","r","n","i","n","g","s">>,
        <<"i","n","t","e","r","i","m">>,
        <<"f","i","n","a","l">>,
        <<"h","a","l","f"," ","y","e","a","r">>,
        <<"f","u","l","l"," ","y","e","a","r">>,
        <<"q","u","a","r","t","e","r","l","y">>,
        <<"q","1">>,
        <<"q","2">>,
        <<"q","3">>,
        <<"q","4">>>>],
    [category |-> "trading_update", keywords |-> <<
        <<"t","r","a","d","i","n","g"," ","u","p","d","a","t","e">>,
        <<"t","r","a","d","i","n","g"," ","s","t","a","t","e","m","e","n","t">>,
        <<"g","u","i","d","a","n","c","e">>,
        <<"o","u","t","l","o","o","k">>,
        <<"f","o","r","e","c","a","s","t">>>>],
    [category |-> "acquisition", keywords |-> <<
        <<"a","c","q","u","i","s","i","t","i","o","n">>,
        <<"m","e","r","g","e","r">>,
        <<"t","a","k","e","o","v","e","r">>,
        <<"p","u","r","c","h","a","s","e">>,
        <<"b","u","y">>,
        <<"a","c","q","u","i","r","e">>>>],
    [category |-> "disposal", keywords |-> <<
        <<"d","i","s","p","o","s","a","l">>,
        <<"s","a","l","e">>,
        <<"s","e","l","l">>,
        <<"d","i","v","e","s","t","m","e","n","t">>,
        <<"d","i","v","e","s","t">>>>],
    [category |-> "dividend", keywords |-> <<
        <<"d","i","v","i","d","e","n","d">>,
        <<"d","i","s","t","r","i","b","u","t","i","o","n">>,
        <<"p","a","y","m","e","n","t">>,
        <<"p","a","y","o","u","t">>,
        <<"y","i","e","l","d">>>>],
    [category |-> "appointment", keywords |-> <<
        <<"a","p","p","o","i","n","t","m","e","n","t">>,
        <<"d","i","r","e","c","t","o","r">>,
        <<"c","e","o">>,
        <<"c","f","o">>,
        <<"c","h","a","i","r","m","a","n">>,
        <<"b","o","a","r","d">>,
        <<"j","o","i","n","s">>,
        <<"n","a","m","e","d">>>>],
    [category |-> "fundraising", keywords |-> <<
        <<"f","u","n","d","r","a","i","s","i","n","g">>,
        <<"p","l","a","c","i","n","g">>,
        <<"r","i","g","h","t","s"," ","i","s","s","u","e">>,
        <<"s","h","a","r","e"," ","i","s","s","u","e">>,
        <<"c","a","p","i","t","a","l">>,
        <<"f","u","n","d","i","n","g">>>>],
    [category |-> "contract", keywords |-> <<
        <<"c","o","n","t","r","a","c","t">>,
        <<"a","w","a","r","d">>,
        <<"w","i","n","s">>,
        <<"s","e","c","u","r","e","d">>,
        <<"a","g","r","e","e","m","e","n","t">>,
        <<"d","e","a","l">>>>],
    [category |-> "regulatory", keywords |-> <<
        <<"r","e","g","u","l","a","t","o","r","y">>,
        <<"c","o","m","p","l","i","a","n","c","e">>,
        <<"i","n","v","e","s","t","i","g","a","t","i","o","n">>,
        <<"f","i","n","e">>,
        <<"p","e","n","a","l","t","y">>>>],
    [category |-> "other", keywords |-> <<
        >>] >>

\* any(keyword in text for keyword in keywords)
AnyKeyword(text, keywords) ==
    \E k \in 1..Len(keywords) : Contains(text, keywords[k])

RECURSIVE ClassifyFrom(_, _)
\* mutant: the loop keeps going and the last matching entry is returned
ClassifyFrom_LastWins(text, i) ==
    LET hits == {j \in 1..Len(categories) :
                    /\ categories[j].category # "other"
                    /\ AnyKeyword(text, categories[j].keywords)}
    IN  IF hits = {} THEN "other" ELSE categories[Max(hits)].category

\* the loop over categories.items() from entry i: "other" is skipped, the
\* first entry with a keyword in the text is returned
ClassifyFrom(text, i) ==
    IF i > Len(categories) THEN "other"
    ELSE IF categories[i].category = "other" THEN ClassifyFrom(text, i + 1)
    ELSE IF AnyKeyword(text, categories[i].keywords) THEN categories[i].category
    ELSE ClassifyFrom(text, i + 1)

\* f"{title} {content}"
Combined(t, c) == t \o <<" ">> \o c

\* mutant: the body text is left out of the classified text
classify_announcement_TitleOnly(t, c) == ClassifyFrom(lower(t), 1)

classify_announcement(t, c) == ClassifyFrom(lower(Combined(t, c)), 1)

(***************************************************************************)
(* Specification SpecClassify: classify_announcement on a title and body   *)
(***************************************************************************)
\* longest title, in words
MaxTitleWords == 2

\* the words titles and bodies are assembled from: one keyword carrier per
\* category, a neutral word, and the two halves of "half year"
ClassifyWords == {
    <<"D","i","v","i","d","e","n","d">>,
    <<"F","i","n","a","l">>,
    <<"O","u","t","l","o","o","k">>,
    <<"b","u","y","s">>,
    <<"W","h","o","l","e","s","a","l","e">>,
    <<"C","E","O">>,
    <<"p","l","a","c","i","n","g">>,
    <<"d","e","a","l">>,
    <<"p","e","n","a","l","t","y">>,
    <<"A","c","m","e">>,
    <<"H","a","l","f">>,
    <<"y","e","a","r">> }

RECURSIVE JoinWords(_)
\* the words separated by single spaces
JoinWords(ws) ==
    IF ws = <<>> THEN <<>>
    ELSE IF Len(ws) = 1 THEN ws[1]
    ELSE ws[1] \o <<" ">> \o JoinWords(Tail(ws))

InitClassify ==
    /\ pc = "classify_start"
    /\ title \in {JoinWords(ws) : ws \in SeqsUpTo(ClassifyWords, MaxTitleWords)}
    /\ content \in ClassifyWords \cup {<<>>}
    /\ rns_type = ""
    /\ company_info = EmptyInfo
    /\ NormIdle /\ ScrapeIdle /\ DedupIdle /\ MainIdle

\* announcement_type = classify_announcement(title, summary)
Classify ==
    /\ pc = "classify_start"
    /\ rns_type' = classify_announcement(title, content)
    /\ pc' = "classified"
    /\ UNCHANGED <<title, content, company_info, normVars, scrapeVars, dedupVars, mainVars>>

NextClassify == Classify

SpecClassify == InitClassify /\ [][NextClassify]_vars

\* the nine keyword categories in their priority order, as the claim lists them
PriorityOrder == <<"results", "trading_update", "acquisition", "disposal",
                   "dividend", "appointment", "fundraising", "contract",
                   "regulatory">>

\* the keyword set the table gives a category
KeywordsOf(name) ==
    LET i == CHOOSE j \in 1..Len(categories) : categories[j].category = name
    IN  {categories[i].keywords[k] : k \in 1..Len(categories[i].keywords)}

\* the category has a keyword occurring in the lowercased title-and-body
Matches(name) ==
    \E kw \in KeywordsOf(name) : Contains(lower(Combined(title, content)), kw)

\* C5: classify_announcement is total and priority-ordered: it returns the
\* first category of the fixed order with a keyword in the lowercased
\* concatenation of title and body, and "other" when none has one; the result
\* is always one of the ten values.
C5_TotalPriority ==
    pc = "classified" =>
        /\ rns_type \in {PriorityOrder[i] : i \in 1..9} \cup {"other"}
        /\ rns_type = "other" => \A i \in 1..9 : ~Matches(PriorityOrder[i])
        /\ rns_type # "other" =>
              \E i \in 1..9 : /\ PriorityOrder[i] = rns_type
                              /\ Matches(rns_type)
                              /\ \A j \in 1..(i - 1) : ~Matches(PriorityOrder[j])

\* C5 witness: a text matching two categories was classified as the earlier
C5_Witness ==
    /\ pc = "classified"
    /\ rns_type = "dividend"
    /\ Matches("contract")

\* the text holds the keyword "dividend"
HasDividend ==
    Contains(lower(Combined(title, content)), <<"d","i","v","i","d","e","n","d">>)

\* C6 (as claimed): a text with "dividend" and no keyword of the results and
\* trading_update sets is classified "dividend".
C6_Original ==
    (pc = "classified" /\ HasDividend
        /\ ~Matches("results") /\ ~Matches("trading_update"))
    => rns_type = "dividend"

\* C6 (amended): a text with "dividend" and no keyword of the four sets ahead
\* of dividend (results, trading_update, acquisition, disposal) is classified
\* "dividend".
C6_Amended ==
    (pc = "classified" /\ HasDividend
        /\ ~Matches("results") /\ ~Matches("trading_update")
        /\ ~Matches("acquisition") /\ ~Matches("disposal"))
    => rns_type = "dividend"

\* C6 witness: "dividend" sits in the body only, nothing ahead of it matches
C6_Witness ==
    /\ pc = "classified"
    /\ rns_type = "dividend"
    /\ HasDividend
    /\ ~Contains(lower(title), <<"d","i","v","i","d","e","n","d">>)
    /\ ~Matches("results") /\ ~Matches("trading_update")
    /\ ~Matches("acquisition") /\ ~Matches("disposal")

(***************************************************************************)
(* extract_company_ticker                                                  *)
(***************************************************************************)
RECURSIVE UpperRun(_, _)
\* number of consecutive characters of [A-Z] starting at s[i]
UpperRun(s, i) ==
    IF i <= Len(s) /\ s[i] \in Upper THEN 1 + UpperRun(s, i + 1) ELSE 0

\* (?:[:.](?:LON|L))?\) matches at s[q]
QualifierAt(s, q) ==
    \/ OccursAt(s, <<")">>, q)
    \/ /\ q <= Len(s) /\ s[q] \in {":", "."}
       /\ \/ OccursAt(s, <<"L","O","N",")">>, q + 1)
          \/ OccursAt(s, <<"L",")">>, q + 1)

\* the lengths n of [A-Z]{2,5} with which \(([A-Z]{2,5})(?:[:.](?:LON|L))?\)
\* matches at s[m]
QualifiedTickerLens(s, m) ==
    IF m <= Len(s) /\ s[m] = "("
    THEN {n \in 2..5 : n <= UpperRun(s, m + 1) /\ QualifierAt(s, m + 1 + n)}
    ELSE {}

\* the lengths n with which \(([A-Z]{2,5})\) matches at s[m]
BareTickerLens(s, m) ==
    IF m <= Len(s) /\ s[m] = "("
    THEN {n \in 2..5 : n <= UpperRun(s, m + 1) /\ OccursAt(s, <<")">>, m + 1 + n)}
    ELSE {}

\* pattern 1, ([A-Z][^(]*?)\s*\(([A-Z]{2,5})(?:[:.](?:LON|L))?\), tried from
\* s[i]: neither [^(]*? nor \s* crosses a parenthesis, so the ticker
\* parenthesis is the first "(" after s[i]
FirstOpenAfter(s, i) ==
    LET opens == {m \in (i + 1)..Len(s) : s[m] = "("}
    IN  IF opens = {} THEN 0 ELSE Min(opens)

Pattern1At(s, i) ==
    /\ s[i] \in Upper
    /\ FirstOpenAfter(s, i) # 0
    /\ QualifiedTickerLens(s, FirstOpenAfter(s, i)) # {}

\* re.search: the leftmost start; group 1 is lazy, so it ends at the last
\* character before the parenthesis that \s* cannot take (or at s[i] itself);
\* the ticker is greedy
Pattern1(s) ==
    LET starts == {i \in 1..Len(s) : Pattern1At(s, i)}
        i  == Min(starts)
        m  == FirstOpenAfter(s, i)
        e  == Max({i} \cup {k \in i..(m - 1) : s[k] \notin Whitespace})
        n  == Max(QualifiedTickerLens(s, m))
    IN  [matched |-> starts # {},
         group1  |-> IF starts = {} THEN <<>> ELSE SubSeq(s, i, e),
         group2  |-> IF starts = {} THEN <<>> ELSE SubSeq(s, m + 1, m + n)]

\* pattern 2, \(([A-Z]{2,5})\), searched in the title
Pattern2(s) ==
    LET ms == {m \in 1..Len(s) : BareTickerLens(s, m) # {}}
        m  == Min(ms)
    IN  [matched |-> ms # {},
         group1  |-> IF ms = {} THEN <<>>
                     ELSE SubSeq(s, m + 1, m + Max(BareTickerLens(s, m)))]

\* re.search(r"^([^(]+)", title): the text before the first parenthesis
BeforeParen(s) ==
    LET opens == {k \in 1..Len(s) : s[k] = "("}
        stop  == IF opens = {} THEN Len(s) + 1 ELSE Min(opens)
    IN  [matched |-> stop > 1, group1 |-> SubSeq(s, 1, stop - 1)]

\* pattern 3, ^([A-Z]{2,5}):\s*(.+): \s* is greedy but gives characters back
\* until (.+) has a character other than a newline to start on
Pattern3(s) ==
    LET ns     == {n \in 2..5 : n <= UpperRun(s, 1) /\ OccursAt(s, <<":">>, n + 1)}
        n      == Max(ns)
        starts == {k \in (n + 2)..Len(s) :
                      /\ \A j \in (n + 2)..(k - 1) : s[j] \in Whitespace
                      /\ s[k] # "\n"}
        k      == Max(starts)
        ends   == {j \in k..Len(s) : s[j] = "\n"}
        stop   == IF ends = {} THEN Len(s) + 1 ELSE Min(ends)
        ok     == ns # {} /\ starts # {}
    IN  [matched |-> ok,
         group1  |-> IF ok THEN SubSeq(s, 1, n) ELSE <<>>,
         group2  |-> IF ok THEN SubSeq(s, k, stop - 1) ELSE <<>>]

\* re.search(r"^([^:,]+)", rest_title): the text up to the next colon or comma
BeforeColonComma(s) ==
    LET seps == {k \in 1..Len(s) : s[k] \in {":", ","}}
        stop == IF seps = {} THEN Len(s) + 1 ELSE Min(seps)
    IN  [matched |-> stop > 1, group1 |-> SubSeq(s, 1, stop - 1)]

\* the outcome of the pattern-2 block on company_info
AfterPattern2(info, t) ==
    LET ticker_only   == Pattern2(t)
        company_match == BeforeParen(t)
    IN  IF ticker_only.matched
        THEN [ticker |-> ticker_only.group1,
              company_name |-> IF company_match.matched
                               THEN strip(company_match.group1)
                               ELSE info.company_name]
        ELSE info

\* the outcome of the pattern-3 block on company_info
AfterPattern3(info, t) ==
    LET start_ticker  == Pattern3(t)
        company_match == BeforeColonComma(start_ticker.group2)
    IN  IF start_ticker.matched
        THEN [ticker |-> start_ticker.group1,
              company_name |-> IF company_match.matched
                               THEN strip(company_match.group1)
                               ELSE info.company_name]
        ELSE info

\* extract_company_ticker: pattern 1 returns at once; the pattern-2 block has
\* no return, so the pattern-3 block runs after it on the same company_info
extract_company_ticker(t, c) ==
    LET match == Pattern1(t)
    IN  IF match.matched
        THEN [ticker |-> strip(match.group2), company_name |-> strip(match.group1)]
        ELSE AfterPattern3(AfterPattern2(EmptyInfo, t), t)

(***************************************************************************)
(* Specification SpecTicker: extract_company_ticker on a title             *)
(***************************************************************************)
\* longest title, in fragments
MaxTickerFrags == 3

\* the pieces titles are assembled from
TickerFragments == {
    <<"A","c","m","e"," ">>,
    <<"p","l","c"," ">>,
    <<"(","A","C","M",")">>,
    <<"(","A","B",".","L",")">>,
    <<"L","L","O","Y",":"," ">>,
    <<"(">>,
    <<"x",","," ","y">> }

InitTicker ==
    /\ pc = "ticker_start"
    /\ title \in {Flatten(fs) : fs \in SeqsUpTo(TickerFragments, MaxTickerFrags)}
    /\ content = <<>>
    /\ rns_type = ""
    /\ company_info = EmptyInfo
    /\ NormIdle /\ ScrapeIdle /\ DedupIdle /\ MainIdle

\* company_info = extract_company_ticker(title)
ExtractTicker ==
    /\ pc = "ticker_start"
    /\ company_info' = extract_company_ticker(title, content)
    /\ pc' = "extracted"
    /\ UNCHANGED <<title, content, rns_type, normVars, scrapeVars, dedupVars, mainVars>>

NextTicker == ExtractTicker

SpecTicker == InitTicker /\ [][NextTicker]_vars

\* what the lowest-numbered matching pattern alone captures from the title
FirstMatchCaptures(t) ==
    IF Pattern1(t).matched
    THEN [ticker |-> strip(Pattern1(t).group2),
          company_name |-> strip(Pattern1(t).group1)]
    ELSE IF Pattern2(t).matched THEN AfterPattern2(EmptyInfo, t)
    ELSE IF Pattern3(t).matched THEN AfterPattern3(EmptyInfo, t)
    ELSE EmptyInfo

\* C7: the ticker and company name returned are those of the lowest-numbered
\* matching pattern, never overwritten by a later pattern, and both are empty
\* when no pattern matches.
C7_FirstMatchWins ==
    pc = "extracted" => company_info = FirstMatchCaptures(title)

(***************************************************************************)
(* Source functions: scrape_investegate_main, scrape_lse_news,             *)
(* scrape_sharecast (pattern cascades over a fetched page) and             *)
(* fetch_yahoo_finance_rss (feed entries).                                 *)
(*                                                                         *)
(* A page is what re.findall returns on it: one list of match tuples per   *)
(* pattern, and the list of (href, text) pairs of the fallback pattern.    *)
(***************************************************************************)
\* len(title) < 10 is skipped
MinTitleLen == 10

\* the fallback keeps len(title) > 15
FallbackMinLen == 15

\* len(patterns) in each scraper
NumPatterns(src) ==
    CASE src = "investegate" -> 4
      [] src = "lse"         -> 3
      [] src = "sharecast"   -> 2

InvestegateOrigin == <<"h","t","t","p","s",":","/","/","w","w","w",".","i","n","v","e","s","t","e","g","a","t","e",".","c","o",".","u","k">>
LseBase == <<"h","t","t","p","s",":","/","/","w","w","w",".","l","o","n","d","o","n","s","t","o","c","k","e","x","c","h","a","n","g","e",".","c","o","m","/">>
SharecastBase == <<"h","t","t","p","s",":","/","/","w","w","w",".","s","h","a","r","e","c","a","s","t",".","c","o","m","/">>
YahooUrl == "https://feeds.finance.yahoo.com/rss/2.0/headline?s=^FTSE&region=GB&lang=en-GB"
Http == <<"h","t","t","p">>

\* the generic titles the Investegate cascade skips
FillerTitles == {<<"m","o","r","e">>, <<"r","e","a","d"," ","m","o","r","e">>, <<"c","l","i","c","k"," ","h","e","r","e">>}

\* rns_indicators of the Investegate fallback
rns_indicators == <<<<"r","n","s">>,
    <<"a","n","n","o","u","n","c","e","s">>,
    <<"r","e","s","u","l","t","s">>,
    <<"u","p","d","a","t","e">>,
    <<"d","i","v","i","d","e","n","d">>,
    <<"a","c","q","u","i","s","i","t","i","o","n">>,
    <<"a","p","p","o","i","n","t">>>>

\* urllib.parse.urljoin(base, url) for a base whose path is "/" and a url
\* that is empty, absolute (http...), protocol-relative (//host/..),
\* root-relative (/..), a fragment (#..) or a bare path without dot segments
urljoin(base, url) ==
    IF url = <<>> THEN base
    ELSE IF startswith(url, Http \o <<":">>) \/ startswith(url, Http \o <<"s",":">>)
         THEN url
    ELSE IF startswith(url, <<"/","/">>) THEN Http \o <<"s",":">> \o url
    ELSE IF startswith(url, <<"/">>) THEN Upto(base, Len(base) - 1) \o url
    ELSE base \o url

\* the record the Investegate structured path builds from a kept match
InvestegateLink(link) ==
    IF startswith(link, <<"/">>) THEN InvestegateOrigin \o link
    ELSE IF ~startswith(link, Http) THEN InvestegateOrigin \o <<"/">> \o link
    ELSE link

\* the fallback path's link handling: only hrefs starting with "/" are joined
InvestegateFallbackLink(link) ==
    IF startswith(link, <<"/">>) THEN InvestegateOrigin \o link ELSE link

\* link handling of scrape_lse_news and scrape_sharecast
JoinedLink(base, link) ==
    IF ~startswith(link, Http) THEN urljoin(base, link) ELSE link

\* datetime.now().isoformat(), as a text
Now == <<"now">>

\* the record dict of the three scrapers; datetime.utcnow() is "now"
ScrapedRecord(t, link, published, category, author, src, src_url, priority) ==
    LET company_info_ == extract_company_ticker(t, <<>>) IN
    [title           |-> t,
     link            |-> link,
     published       |-> IF published = <<>> THEN Now ELSE published,
     summary         |-> <<>>,
     category        |-> category,
     author          |-> author,
     guid            |-> link,
     source          |-> src,
     source_url      |-> src_url,
     source_priority |-> priority,
     ticker          |-> company_info_.ticker,
     company_name    |-> company_info_.company_name,
     rns_type        |-> classify_announcement(t, <<>>),
     scraped_at      |-> "now"]

\* match[2] if len(match) > 2 else ""
DateOf(match) == IF Len(match) > 2 THEN match[3] ELSE <<>>

\* the body of the Investegate loop for one match: the records it appends
InvestegateKeep(match) ==
    LET t == clean_text(match[2])
    IN  IF Len(t) < MinTitleLen \/ lower(t) \in FillerTitles THEN <<>>
        ELSE <<ScrapedRecord(t, InvestegateLink(match[1]), DateOf(match), <<"r","n","s">>,
                             "Investegate", "Investegate_Direct",
                             "https://www.investegate.co.uk/", 1)>>

\* the body of the LSE loop for one match
LseKeep(match) ==
    LET t == clean_text(match[2])
    IN  IF Len(t) < MinTitleLen THEN <<>>
        ELSE <<ScrapedRecord(t, JoinedLink(LseBase, match[1]), <<>>, <<"r","e","g","u","l","a","t","o","r","y">>,
                             "LSE", "LSE_News_Direct",
                             "https://www.londonstockexchange.com/news", 2)>>

\* the body of the ShareCast loop for one match
SharecastKeep(match) ==
    LET t == clean_text(match[2])
    IN  IF Len(t) < MinTitleLen THEN <<>>
        ELSE <<ScrapedRecord(t, JoinedLink(SharecastBase, match[1]), <<>>,
                             <<"m","a","r","k","e","t","_","n","e","w","s">>, "ShareCast", "ShareCast_UK",
                             "https://www.sharecast.com/market-news", 2)>>

KeepMatch(src, match) ==
    CASE src = "investegate" -> InvestegateKeep(match)
      [] src = "lse"         -> LseKeep(match)
      [] src = "sharecast"   -> SharecastKeep(match)

\* mutant: the slice is missing, the whole list is walked
Slice_NoCap(seq, n) == seq

\* seq[:n]
Slice(seq, n) == SubSeq(seq, 1, IF n < Len(seq) THEN n ELSE Len(seq))

RECURSIVE PatternRecords(_, _)
\* for match in matches: the records appended, in match order
PatternRecords(src, matches) ==
    IF matches = <<>> THEN <<>>
    ELSE KeepMatch(src, Head(matches)) \o PatternRecords(src, Tail(matches))

\* any(indicator in title.lower() for indicator in rns_indicators)
HasIndicator(t) ==
    \E k \in 1..Len(rns_indicators) : Contains(lower(t), rns_indicators[k])

RECURSIVE FallbackRecords(_, _, _)
\* the fallback loop over all_links[: limit * 2]: a kept link is appended and
\* the loop breaks once len(records) >= limit
FallbackRecords(links, lim, acc) ==
    IF links = <<>> THEN acc
    ELSE LET t == clean_text(Head(links)[2])
         IN  IF HasIndicator(t) /\ Len(t) > FallbackMinLen
             THEN LET acc2 == Append(acc,
                                ScrapedRecord(t, InvestegateFallbackLink(Head(links)[1]),
                                    <<>>, <<"r","n","s">>, "Investegate", "Investegate_Direct",
                                    "https://www.investegate.co.uk/", 1))
                  IN  IF Len(acc2) >= lim THEN acc2
                      ELSE FallbackRecords(Tail(links), lim, acc2)
             ELSE FallbackRecords(Tail(links), lim, acc)

\* entry.get(key, "")
EntryGet(entry, key) == IF key \in DOMAIN entry THEN entry[key] ELSE <<>>

\* the record fetch_yahoo_finance_rss builds from one feed entry: no entry is
\* skipped, whatever its title
YahooRecord(entry) ==
    LET t == clean_text(EntryGet(entry, "title"))
        summary == clean_text(EntryGet(entry, "summary"))
        company_info_ == extract_company_ticker(t, summary)
    IN  [title           |-> t,
         link            |-> EntryGet(entry, "link"),
         published       |-> EntryGet(entry, "published"),
         summary         |-> summary,
         category        |-> EntryGet(entry, "category"),
         author          |-> "Yahoo Finance",
         guid            |-> EntryGet(entry, "guid"),
         source          |-> "Yahoo_Finance_UK",
         source_url      |-> YahooUrl,
         source_priority |-> 3,
         ticker          |-> company_info_.ticker,
         company_name    |-> company_info_.company_name,
         rns_type        |-> classify_announcement(t, summary),
         scraped_at      |-> "now"]

\* for entry in parsed.entries[:limit]: records.append(record)
FeedRecords(entries, lim) ==
    [i \in 1..Len(Slice(entries, lim)) |-> YahooRecord(entries[i])]

(***************************************************************************)
(* Specification SpecScrape: one call of a source function on a page       *)
(***************************************************************************)
\* longest match list, link list and feed
MaxMatches == 5

\* largest small item cap tried (the cap MaxMatches is tried as well)
MaxLimit == 2

Sources == {"investegate", "lse", "yahoo", "sharecast"}
Scrapers == {"investegate", "lse", "sharecast"}

Limits == (0..MaxLimit) \cup {MaxMatches}
ListLens == {1, 2, MaxMatches}

Digits == <<"0","1","2","3","4","5","6","7","8","9">>
PatternLetters == <<"a","b","c","d","e">>

\* what tells item i of pattern p from every other item
ItemTag(p, i) == <<PatternLetters[p], Digits[i + 1]>>

\* a title the cascades keep, before normalization
RawValidTitle(p, i) ==
    (IF p % 2 = 1 THEN <<" ","A","c","m","e"," ","(","A","C","M",")"," "," ","u","p","d","a","t","e"," ">>
                  ELSE <<"B","e","t"," ","&","a","m","p",";"," ","C","o"," ","u","p","d","a","t","e"," ">>) \o ItemTag(p, i)

\* hrefs as pages carry them: bare relative, root-relative, absolute,
\* protocol-relative, fragment
ItemLinks == <<
    <<"n","e","w","s","/","x",".","h","t","m","l">>,
    <<"/","n","e","w","s","/","a">>,
    <<"h","t","t","p","s",":","/","/","x",".","c","o","/","a">>,
    <<"/","/","c","d","n",".","c","o","/","a">>,
    <<"#","t","o","p">> >>

ItemLink(i) == ItemLinks[((i - 1) % Len(ItemLinks)) + 1]

ItemDate == <<"0","1"," ","N","o","v">>

MatchShapes == {"valid", "short", "short_then_valid", "filler_then_valid"}

\* the title group of match i of a list of the given shape
ShapedTitle(p, shape, i) ==
    CASE shape = "valid" -> RawValidTitle(p, i)
      [] shape = "short" -> <<"R","e","a","d"," ","m","o","r","e">>
      [] shape = "short_then_valid" ->
            IF i = 1 THEN <<"R","e","a","d"," ","m","o","r","e">> ELSE RawValidTitle(p, i)
      [] shape = "filler_then_valid" ->
            IF i = 1 THEN <<"C","l","i","c","k"," ","h","e","r","e">> ELSE RawValidTitle(p, i)

\* the (link, title, date) tuples one pattern finds
MatchList(p, shape, n) ==
    [i \in 1..n |-> <<ItemLink(i), ShapedTitle(p, shape, i), ItemDate>>]

\* what re.findall can return for pattern p of a scraper: the first pattern
\* ranges over all shapes and lengths, the second over fewer, the later ones
\* find nothing or one item (Investegate's patterns 3 and 4 capture hrefs
\* that start with "/"; pattern 3 has two groups and a title holding "RNS")
PatternChoices(src, p) ==
    IF p = 1
    THEN {<<>>} \cup {MatchList(p, sh, n) : sh \in MatchShapes, n \in ListLens}
    ELSE IF p = 2
    THEN {<<>>} \cup {MatchList(p, sh, n) : sh \in {"valid", "short_then_valid"},
                                           n \in {1, MaxMatches}}
    ELSE IF src = "investegate" /\ p = 3
    THEN {<<>>, << <<ItemLink(2), <<"R","N","S"," ","A","c","m","e"," ","u","p","d","a","t","e"," ","c","1">>>> >>}
    ELSE IF src = "investegate"
    THEN {<<>>, << <<ItemLink(2), <<"A","c","m","e"," ","d","e","a","l"," ","u","p","d","a","t","e"," ","d","1">>, <<"R","e","a","d">>>> >>}
    ELSE {<<>>, << <<ItemLink(1), RawValidTitle(p, 1)>> >>}

MatchChoices(src) ==
    CASE src = "sharecast" ->
            {<<a, b>> : a \in PatternChoices(src, 1), b \in PatternChoices(src, 2)}
      [] src = "lse" ->
            {<<a, b, c>> : a \in PatternChoices(src, 1), b \in PatternChoices(src, 2),
                           c \in PatternChoices(src, 3)}
      [] src = "investegate" ->
            {<<a, b, c, d>> : a \in PatternChoices(src, 1), b \in PatternChoices(src, 2),
                              c \in PatternChoices(src, 3), d \in PatternChoices(src, 4)}

LinkShapes == {"rns", "plain_then_rns"}

\* the anchor text of hyperlink i of the page
LinkText(shape, i) ==
    IF shape = "plain_then_rns" /\ i = 1 THEN <<"A","b","o","u","t"," ","t","h","e"," ","c","o","m","p","a","n","y">>
    ELSE <<"A","c","m","e"," ","a","n","n","o","u","n","c","e","s"," ","u","p","d","a","t","e"," ">> \o ItemTag(5, i)

\* the (href, text) pairs of the page's hyperlinks
LinkList(shape, n) == [i \in 1..n |-> <<ItemLink(i), LinkText(shape, i)>>]

LinkChoices(src) ==
    IF src = "investegate"
    THEN {<<>>} \cup {LinkList(sh, n) : sh \in LinkShapes, n \in {1, MaxMatches}}
    ELSE {<<>>, LinkList("rns", 1)}

FeedShapes == {"valid", "empty_title", "no_title"}

\* entry i of a feed of n entries: in an "empty_title" feed the last entry has
\* an empty title, in a "no_title" feed the first has none at all
FeedEntry(shape, n, i) ==
    LET full == [k \in {"title", "summary", "link", "published", "guid"} |->
                    CASE k = "title"     -> RawValidTitle(1, i)
                      [] k = "summary"   -> <<"F","i","n","a","l"," ","r","e","s","u","l","t","s"," ","&","a","m","p",";"," ","d","i","v","i","d","e","n","d">>
                      [] k = "link"      -> ItemLinks[3] \o <<Digits[i + 1]>>
                      [] k = "published" -> ItemDate
                      [] k = "guid"      -> ItemLinks[3] \o <<Digits[i + 1]>>]
    IN  IF shape = "empty_title" /\ i = n THEN [full EXCEPT !["title"] = <<>>]
        ELSE IF shape = "no_title" /\ i = 1
        THEN [k \in {"summary", "link", "published", "guid"} |-> full[k]]
        ELSE full

FeedChoices ==
    {<<>>} \cup {[i \in 1..n |-> FeedEntry(sh, n, i)] :
                    sh \in FeedShapes, n \in 1..MaxMatches}

PagesOf(src) ==
    IF src = "yahoo"
    THEN {[matches |-> <<>>, all_links |-> <<>>, entries |-> e] : e \in FeedChoices}
    ELSE {[matches |-> ms, all_links |-> al, entries |-> <<>>] :
             ms \in MatchChoices(src), al \in LinkChoices(src)}

InitScrape ==
    /\ pc = "scrape_start"
    /\ source \in Sources
    /\ limit \in Limits
    /\ page \in PagesOf(source)
    /\ pat = 1
    /\ records = <<>>
    /\ tried = <<>>
    /\ fallback_ran = FALSE
    /\ result = <<>>
    /\ NormIdle /\ EnrichIdle /\ DedupIdle /\ MainIdle

scrapeFrame == <<source, limit, page, normVars, enrichVars, dedupVars, mainVars>>

\* `import feedparser` stands ahead of the try block: when it fails the
\* exception leaves fetch_yahoo_finance_rss
FeedImportFails ==
    /\ pc = "scrape_start"
    /\ source = "yahoo"
    /\ pc' = "scrape_raised"
    /\ UNCHANGED <<pat, records, tried, fallback_ran, result, scrapeFrame>>

\* urlopen / feedparser.parse raises inside the try block: except -> return []
FetchFails ==
    /\ pc = "scrape_start"
    /\ pc' = "scrape_failed"
    /\ result' = <<>>
    /\ UNCHANGED <<pat, records, tried, fallback_ran, scrapeFrame>>

\* the page was read and decoded
FetchPage ==
    /\ pc = "scrape_start"
    /\ source \in Scrapers
    /\ pc' = "patterns"
    /\ UNCHANGED <<pat, records, tried, fallback_ran, result, scrapeFrame>>

\* the records in hand after one pass of `for pattern in patterns`
AfterPattern(src, recs, matches, lim) ==
    recs \o PatternRecords(src, Slice(matches, lim))

\* mutant: the `if records: break` is missing, every pattern is applied
CascadeStops_NoBreak(recs, p, src) == p = NumPatterns(src)

\* `if records: break`
CascadeStops(recs, p, src) == recs # <<>> \/ p = NumPatterns(src)

\* one pass of `for pattern in patterns`: the first `limit` matches are
\* filtered and appended, and the loop is left once records is non-empty
ApplyPattern ==
    /\ pc = "patterns"
    /\ records' = AfterPattern(source, records, page.matches[pat], limit)
    /\ tried' = Append(tried, pat)
    /\ IF CascadeStops(records', pat, source)
       THEN pc' = "cascade_done" /\ pat' = pat
       ELSE pc' = "patterns" /\ pat' = pat + 1
    /\ UNCHANGED <<fallback_ran, result, scrapeFrame>>

\* scrape_investegate_main only: `if not records:` the loose fallback runs
\* over all_links[: limit * 2]
Fallback ==
    /\ pc = "cascade_done"
    /\ source = "investegate"
    /\ records = <<>>
    /\ fallback_ran' = TRUE
    /\ records' = FallbackRecords(Slice(page.all_links, limit * 2), limit, <<>>)
    /\ pc' = "fallback_done"
    /\ UNCHANGED <<pat, tried, result, scrapeFrame>>

\* return records
ReturnRecords ==
    /\ \/ pc = "fallback_done"
       \/ pc = "cascade_done" /\ (source # "investegate" \/ records # <<>>)
    /\ result' = records
    /\ pc' = "scrape_returned"
    /\ UNCHANGED <<pat, records, tried, fallback_ran, scrapeFrame>>

\* fetch_yahoo_finance_rss: the feed was parsed; every entry of the first
\* `limit` becomes a record
FetchFeed ==
    /\ pc = "scrape_start"
    /\ source = "yahoo"
    /\ records' = FeedRecords(page.entries, limit)
    /\ result' = records'
    /\ pc' = "scrape_returned"
    /\ UNCHANGED <<pat, tried, fallback_ran, scrapeFrame>>

NextScrape ==
    \/ FeedImportFails
    \/ FetchFails
    \/ FetchPage
    \/ ApplyPattern
    \/ Fallback
    \/ ReturnRecords
    \/ FetchFeed

SpecScrape == InitScrape /\ [][NextScrape]_vars

\* the title of a match passes the scraper's structural test: at least ten
\* characters after normalization and, on Investegate, not a filler phrase
StructurallyValid(src, match) ==
    /\ Len(clean_text(match[2])) >= 10
    /\ src = "investegate" =>
          lower(clean_text(match[2])) \notin
              {<<"m","o","r","e">>, <<"r","e","a","d"," ","m","o","r","e">>, <<"c","l","i","c","k"," ","h","e","r","e">>}

\* the structurally valid matches among the first `limit` of pattern p
ValidMatches(p) ==
    LET Valid(m) == StructurallyValid(source, m)
    IN  SelectSeq(Slice(page.matches[p], limit), Valid)

\* C2: first success wins: the patterns are applied in list order; no pattern
\* is applied after one that produced a record, nor is the fallback; the
\* records returned are exactly the items of the producing pattern, in match
\* order.
C2_FirstSuccessWins ==
    (pc = "scrape_returned" /\ source \in Scrapers) =>
        LET k == Len(tried)
        IN  /\ k >= 1
            /\ tried = [i \in 1..k |-> i]
            /\ \A p \in 1..(k - 1) : ValidMatches(p) = <<>>
            /\ ValidMatches(k) # <<>> =>
                  /\ ~fallback_ran
                  /\ [i \in 1..Len(result) |-> result[i].title]
                       = [i \in 1..Len(ValidMatches(k)) |->
                             clean_text(ValidMatches(k)[i][2])]

\* C2 witness: pattern 1 gave MaxMatches items, pattern 2 would have given
\* MaxMatches other items, and only pattern 1 was applied
C2_Witness ==
    /\ pc = "scrape_returned"
    /\ source \in Scrapers
    /\ limit >= MaxMatches
    /\ Len(result) = MaxMatches
    /\ tried = <<1>>
    /\ Len(ValidMatches(2)) = MaxMatches
    /\ \A i \in 1..MaxMatches :
          result[i].title = clean_text(page.matches[1][i][2])
    /\ \A i, j \in 1..MaxMatches :
          clean_text(page.matches[1][i][2]) # clean_text(page.matches[2][j][2])

\* C3: every record a source function returns has a non-empty title; a feed
\* entry with an empty or missing title produces no record.
C3_NonEmptyTitle ==
    pc = "scrape_returned" => \A i \in 1..Len(result) : result[i].title # <<>>

\* urlparse(link) has a scheme and a host
IsAbsolute(link) ==
    \E pre \in {<<"h","t","t","p",":","/","/">>, <<"h","t","t","p","s",":","/","/">>} :
        /\ startswith(link, pre)
        /\ Len(link) > Len(pre)
        /\ link[Len(pre) + 1] # "/"

\* C4: in every record a source function returns, a non-empty link is
\* absolute, on the structured path and on the fallback path alike.
C4_AbsoluteLinks ==
    pc = "scrape_returned" =>
        \A i \in 1..Len(result) :
            result[i].link # <<>> => IsAbsolute(result[i].link)

(***************************************************************************)
(* remove_similar_duplicates                                               *)
(***************************************************************************)
RECURSIVE SplitFrom(_, _, _)
\* set(s.split()): the scan collects the maximal runs of non-whitespace;
\* `word` is the run being read at s[i]
SplitFrom(s, i, word) ==
    IF i > Len(s) THEN (IF word = <<>> THEN {} ELSE {word})
    ELSE IF s[i] \in Whitespace
         THEN (IF word = <<>> THEN {} ELSE {word}) \cup SplitFrom(s, i + 1, <<>>)
         ELSE SplitFrom(s, i + 1, Append(word, s[i]))

split(s) == SplitFrom(s, 1, <<>>)

Zero == [num |-> 0, den |-> 1]

\* mutant: two empty titles count as equal
similarity_EmptyEqual(s1, s2) ==
    IF s1 = <<>> \/ s2 = <<>>
    THEN (IF s1 = s2 THEN [num |-> 1, den |-> 1] ELSE Zero)
    ELSE LET words1 == split(lower(s1))
             words2 == split(lower(s2))
         IN  IF Cardinality(words1) = 0 \/ Cardinality(words2) = 0 THEN Zero
             ELSE [num |-> Cardinality(words1 \cap words2),
                   den |-> Cardinality(words1 \cup words2)]

\* similarity(s1, s2): the quotient intersection / union, kept as a fraction
similarity(s1, s2) ==
    IF s1 = <<>> \/ s2 = <<>> THEN Zero
    ELSE LET words1 == split(lower(s1))
             words2 == split(lower(s2))
         IN  IF Cardinality(words1) = 0 \/ Cardinality(words2) = 0 THEN Zero
             ELSE LET intersection == Cardinality(words1 \cap words2)
                      union        == Cardinality(words1 \cup words2)
                  IN  IF union > 0 THEN [num |-> intersection, den |-> union]
                      ELSE Zero

\* a > b for fractions with positive denominators. The code compares the
\* double nearest to intersection/union with the double nearest to the
\* threshold: the two orders agree for unions far below 2^52
Greater(a, b) == a.num * b.den > b.num * a.den

\* mutant: the comparison is >= instead of >
is_duplicate_Inclusive(t, unique, threshold) ==
    \E k \in 1..Len(unique) :
        LET sim == similarity(t, unique[k].title)
        IN  sim.num * threshold.den >= threshold.num * sim.den

\* mutant: the candidate is compared with the last accepted record only
is_duplicate_LastOnly(t, unique, threshold) ==
    /\ unique # <<>>
    /\ Greater(similarity(t, unique[Len(unique)].title), threshold)

\* the inner loop: similarity(title, existing_title) > similarity_threshold
\* for some accepted record
is_duplicate(t, unique, threshold) ==
    \E k \in 1..Len(unique) : Greater(similarity(t, unique[k].title), threshold)

\* mutant: the accepted record is rewritten (its title lowercased)
Accept_Rewritten(unique, record) ==
    Append(unique, [record EXCEPT !.title = lower(@)])

\* unique_records.append(record)
Accept(unique, record) == Append(unique, record)

RECURSIVE DedupFrom(_, _, _, _)
\* `for record in records`, from record i on with `unique` accepted
DedupFrom(recs, i, unique, threshold) ==
    IF i > Len(recs) THEN unique
    ELSE IF is_duplicate(recs[i].title, unique, threshold)
         THEN DedupFrom(recs, i + 1, unique, threshold)
         ELSE DedupFrom(recs, i + 1, Accept(unique, recs[i]), threshold)

remove_similar_duplicates(recs, threshold) == DedupFrom(recs, 1, <<>>, threshold)

(***************************************************************************)
(* Specification SpecDedup: remove_similar_duplicates on an aggregate      *)
(***************************************************************************)
\* longest aggregate
MaxRecords == 3

\* records as the source functions build them: titles at similarity 7/10,
\* 8/10, 8/9 and 1 of one another, in two cases, two feed records without a
\* title and one whose title is a single blank
DedupPool == {
    LseKeep(<<ItemLink(1), <<"a"," ","b"," ","c"," ","d"," ","e"," ","f"," ","g"," ","h">>>>)[1],
    SharecastKeep(<<ItemLink(2), <<"a"," ","b"," ","c"," ","d"," ","e"," ","f"," ","g"," ","i"," ","j">>>>)[1],
    YahooRecord([title |-> <<"A"," ","B"," ","C"," ","D"," ","E"," ","F"," ","G"," ","H">>, link |-> ItemLinks[3]]),
    InvestegateKeep(<<ItemLink(2), <<"a"," ","b"," ","c"," ","d"," ","e"," ","f"," ","g"," ","h"," ","i">>, ItemDate>>)[1],
    YahooRecord([title |-> <<>>, link |-> ItemLinks[3]]),
    YahooRecord([link |-> ItemLinks[3] \o <<"2">>]),
    YahooRecord([title |-> <<"\\","t">>, link |-> ItemLinks[3] \o <<"3">>]) }

\* 0.7 is what main passes, 0.8 the default of the parameter; 0.0 and 1.0
\* are the ends of the range
Thresholds == {[num |-> 7, den |-> 10], [num |-> 8, den |-> 10],
               [num |-> 0, den |-> 1], [num |-> 1, den |-> 1]}

InitDedup ==
    /\ pc = "dedup_loop"
    /\ all_records \in SeqsUpTo(DedupPool, MaxRecords)
    /\ similarity_threshold \in Thresholds
    /\ unique_records = <<>>
    /\ idx = 1
    /\ rerun = <<>>
    /\ NormIdle /\ EnrichIdle /\ ScrapeIdle /\ MainIdle

dedupFrame == <<all_records, similarity_threshold, rerun, normVars, enrichVars, scrapeVars, mainVars>>

\* `if not is_duplicate: unique_records.append(record)`
DedupAccept ==
    /\ pc = "dedup_loop"
    /\ idx <= Len(all_records)
    /\ ~is_duplicate(all_records[idx].title, unique_records, similarity_threshold)
    /\ unique_records' = Accept(unique_records, all_records[idx])
    /\ idx' = idx + 1
    /\ UNCHANGED <<pc, dedupFrame>>

\* is_duplicate = True: the record is passed over
DedupDiscard ==
    /\ pc = "dedup_loop"
    /\ idx <= Len(all_records)
    /\ is_duplicate(all_records[idx].title, unique_records, similarity_threshold)
    /\ idx' = idx + 1
    /\ UNCHANGED <<pc, unique_records, dedupFrame>>

\* return unique_records
DedupReturn ==
    /\ pc = "dedup_loop"
    /\ idx > Len(all_records)
    /\ pc' = "dedup_returned"
    /\ UNCHANGED <<idx, unique_records, dedupFrame>>

\* the function is applied again, with the same threshold, to what it returned
DedupAgain ==
    /\ pc = "dedup_returned"
    /\ rerun' = remove_similar_duplicates(unique_records, similarity_threshold)
    /\ pc' = "dedup_rerun"
    /\ UNCHANGED <<idx, unique_records, all_records, similarity_threshold,
                   normVars, enrichVars, scrapeVars, mainVars>>

NextDedup == DedupAccept \/ DedupDiscard \/ DedupReturn \/ DedupAgain

SpecDedup == InitDedup /\ [][NextDedup]_vars

\* the word-level, case-insensitive token set of a title
TokenSet(t) ==
    LET s == lower(t)
    IN  {SubSeq(s, a, b) : <<a, b>> \in
            {ab \in (1..Len(s)) \X (1..Len(s)) :
                /\ ab[1] <= ab[2]
                /\ \A k \in ab[1]..ab[2] : s[k] \notin Whitespace
                /\ ab[1] = 1 \/ s[ab[1] - 1] \in Whitespace
                /\ ab[2] = Len(s) \/ s[ab[2] + 1] \in Whitespace}}

\* the Jaccard similarity of the two token sets is strictly above num/den
JaccardAbove(t1, t2, threshold) ==
    threshold.den * Cardinality(TokenSet(t1) \cap TokenSet(t2))
        > threshold.num * Cardinality(TokenSet(t1) \cup TokenSet(t2))

\* C8: the boundary is exclusive: a candidate is discarded if and only if its
\* title's token-set Jaccard similarity with some accepted record's title is
\* strictly greater than the threshold; at exactly the threshold it is
\* accepted.
C8_ExclusiveBoundary ==
    [][(pc = "dedup_loop" /\ idx' = idx + 1) =>
          ((unique_records' = unique_records) <=>
              \E k \in 1..Len(unique_records) :
                  JaccardAbove(all_records[idx].title, unique_records[k].title,
                               similarity_threshold))]_vars

\* C8 witness: with threshold 0.7, a record whose title is at similarity
\* exactly 7/10 of an accepted one was accepted
C8_Witness ==
    /\ pc = "dedup_returned"
    /\ similarity_threshold = [num |-> 7, den |-> 10]
    /\ \E j, k \in 1..Len(unique_records) :
          /\ j < k
          /\ 10 * Cardinality(TokenSet(unique_records[j].title)
                                \cap TokenSet(unique_records[k].title))
               = 7 * Cardinality(TokenSet(unique_records[j].title)
                                   \cup TokenSet(unique_records[k].title))
          /\ Cardinality(TokenSet(unique_records[k].title)) > 0

\* C9: after deduplication with a threshold below 1 no two records have an
\* identical title, whatever the aggregate (records with an empty title
\* included).
C9_NoIdenticalTitles ==
    (pc = "dedup_returned" /\ similarity_threshold.num < similarity_threshold.den) =>
        \A j, k \in 1..Len(unique_records) :
            j # k => unique_records[j].title # unique_records[k].title

RECURSIVE IsSubsequence(_, _)
\* u can be had from s by deleting elements
IsSubsequence(u, s) ==
    IF u = <<>> THEN TRUE
    ELSE IF s = <<>> THEN FALSE
    ELSE IF Head(u) = Head(s) THEN IsSubsequence(Tail(u), Tail(s))
    ELSE IsSubsequence(u, Tail(s))

\* C10: the deduplicator only filters: after every step the accepted list is
\* a subsequence of the input, record for record with all fields as they
\* were, and the input list is as it was.
C10_OnlyFilters ==
    [][IsSubsequence(unique_records', all_records) /\ all_records' = all_records]_vars

\* C10 witness: the filter returned, having kept some records and dropped
\* others
C10_Witness ==
    /\ pc = "dedup_returned"
    /\ Len(unique_records) >= 2
    /\ Len(unique_records) < Len(all_records)

(***************************************************************************)
(* The source functions as main calls them                                 *)
(***************************************************************************)
RECURSIVE Cascade(_, _, _, _, _)
RECURSIVE CascadeFrom(_, _, _, _, _)
\* `for pattern in patterns`: pattern p was applied and left `recs` in hand
Cascade(src, matches, lim, p, recs) ==
    IF CascadeStops(recs, p, src) THEN recs
    ELSE CascadeFrom(src, matches, lim, p + 1, recs)

\* `for pattern in patterns`, from pattern p on with `recs` in hand
CascadeFrom(src, matches, lim, p, recs) ==
    Cascade(src, matches, lim, p, AfterPattern(src, recs, matches[p], lim))

\* `if not records:` the loose fallback over all_links[: limit * 2]
OrFallback(recs, pg, lim) ==
    IF recs = <<>>
    THEN FallbackRecords(Slice(pg.all_links, lim * 2), lim, <<>>)
    ELSE recs

\* scrape_investegate_main(limit) on a fetched page
scrape_investegate_main(pg, lim) ==
    OrFallback(CascadeFrom("investegate", pg.matches, lim, 1, <<>>), pg, lim)

\* scrape_lse_news(limit) on a fetched page
scrape_lse_news(pg, lim) == CascadeFrom("lse", pg.matches, lim, 1, <<>>)

\* fetch_yahoo_finance_rss(limit) on a parsed feed
fetch_yahoo_finance_rss(pg, lim) == FeedRecords(pg.entries, lim)

\* scrape_sharecast(limit) on a fetched page
scrape_sharecast(pg, lim) == CascadeFrom("sharecast", pg.matches, lim, 1, <<>>)

\* the call main makes for a source name
SourceCall(src, pg, lim) ==
    CASE src = "investegate" -> scrape_investegate_main(pg, lim)
      [] src = "lse"         -> scrape_lse_news(pg, lim)
      [] src = "yahoo"       -> fetch_yahoo_finance_rss(pg, lim)
      [] src = "sharecast"   -> scrape_sharecast(pg, lim)

(***************************************************************************)
(* save_with_metadata                                                      *)
(***************************************************************************)
\* mutant: the unique counts forget the `if r.get(...)` filter
metadata_UnfilteredUnique(recs) ==
    LET n == Len(recs)
    IN  [total_records |-> n,
         scraped_at    |-> "now",
         sources       |-> [s \in {recs[i].source : i \in 1..n} |->
                               Cardinality({i \in 1..n : recs[i].source = s})],
         rns_types     |-> [t \in {recs[i].rns_type : i \in 1..n} |->
                               Cardinality({i \in 1..n : recs[i].rns_type = t})],
         companies_identified |-> Cardinality({i \in 1..n : recs[i].company_name # <<>>}),
         tickers_identified   |-> Cardinality({i \in 1..n : recs[i].ticker # <<>>}),
         unique_companies     |-> Cardinality({recs[i].company_name : i \in 1..n}),
         unique_tickers       |-> Cardinality({recs[i].ticker : i \in 1..n})]

\* the metadata dict
metadata(recs) ==
    LET n == Len(recs)
        named   == {i \in 1..n : recs[i].company_name # <<>>}
        tickered == {i \in 1..n : recs[i].ticker # <<>>}
    IN  [total_records |-> n,
         scraped_at    |-> "now",
         sources       |-> [s \in {recs[i].source : i \in 1..n} |->
                               Cardinality({i \in 1..n : recs[i].source = s})],
         rns_types     |-> [t \in {recs[i].rns_type : i \in 1..n} |->
                               Cardinality({i \in 1..n : recs[i].rns_type = t})],
         companies_identified |-> Cardinality(named),
         tickers_identified   |-> Cardinality(tickered),
         unique_companies     |-> Cardinality({recs[i].company_name : i \in named}),
         unique_tickers       |-> Cardinality({recs[i].ticker : i \in tickered})]

\* f.write(json.dumps(obj, ensure_ascii=False) + "\n"): json.dumps escapes
\* line breaks inside strings, so one object makes one line
JsonLine(obj) == [json |-> obj]

\* mutant: the metadata line is written after the records
save_with_metadata_MetadataLast(recs) ==
    [i \in 1..Len(recs) |-> JsonLine(recs[i])]
        \o <<JsonLine([_metadata |-> metadata(recs)])>>

\* the lines of the file save_with_metadata writes
save_with_metadata(recs) ==
    <<JsonLine([_metadata |-> metadata(recs)])>>
        \o [i \in 1..Len(recs) |-> JsonLine(recs[i])]

(***************************************************************************)
(* Specification SpecMain: one run of main                                 *)
(***************************************************************************)
\* longest --sources list
MaxSourceArgs == 2

\* choices of --sources
SourceChoices == {"investegate", "lse", "yahoo", "sharecast", "all"}

\* the order of the four `if ... in use_sources` blocks
AllSources == <<"investegate", "lse", "yahoo", "sharecast">>

Range(seq) == {seq[i] : i \in 1..Len(seq)}

\* pages a run can meet: an empty page, a page whose first pattern finds two
\* items, and (Investegate) a page only the fallback finds something on; the
\* feed is empty or carries the same two items
MainPages(src) ==
    CASE src = "investegate" ->
            {[matches |-> <<<<>>, <<>>, <<>>, <<>>>>, all_links |-> <<>>, entries |-> <<>>],
             [matches |-> <<MatchList(1, "valid", 2), <<>>, <<>>, <<>>>>, all_links |-> <<>>, entries |-> <<>>],
             [matches |-> <<<<>>, <<>>, <<>>, <<>>>>, all_links |-> LinkList("rns", MaxMatches), entries |-> <<>>]}
      [] src = "lse" ->
            {[matches |-> <<<<>>, <<>>, <<>>>>, all_links |-> <<>>, entries |-> <<>>],
             [matches |-> <<MatchList(1, "valid", 2), <<>>, <<>>>>, all_links |-> <<>>, entries |-> <<>>]}
      [] src = "yahoo" ->
            {[matches |-> <<>>, all_links |-> <<>>, entries |-> <<>>],
             [matches |-> <<>>, all_links |-> <<>>,
              entries |-> [i \in 1..2 |-> FeedEntry("valid", 2, i)]]}
      [] src = "sharecast" ->
            {[matches |-> <<<<>>, <<>>>>, all_links |-> <<>>, entries |-> <<>>],
             [matches |-> <<MatchList(2, "valid", 2), <<>>>>, all_links |-> <<>>, entries |-> <<>>]}

InitMain ==
    /\ pc = "main_start"
    /\ args_sources \in UNION {[1..k -> SourceChoices] : k \in 1..MaxSourceArgs}
    /\ limit \in 0..MaxLimit
    /\ use_sources = <<>>
    /\ step = 1
    /\ attempted = <<>>
    /\ returned = <<>>
    /\ save_calls = <<>>
    /\ out_dir_made = FALSE
    /\ out_files = <<>>
    /\ source = "" /\ page = NoPage /\ pat = 1
    /\ records = <<>> /\ tried = <<>> /\ fallback_ran = FALSE /\ result = <<>>
    /\ NormIdle /\ EnrichIdle /\ DedupIdle

mainFrame == <<args_sources, limit, source, page, pat, tried, fallback_ran, result,
               idx, rerun, normVars, enrichVars>>

\* use_sources = args.sources; "all" stands for the four sources
MainSelect ==
    /\ pc = "main_start"
    /\ use_sources' = IF "all" \in Range(args_sources) THEN AllSources ELSE args_sources
    /\ pc' = "main_sources"
    /\ UNCHANGED <<step, attempted, returned, records, save_calls, out_dir_made,
                   out_files, dedupVars, mainFrame>>

\* `if "<name>" in use_sources:` is false
MainSkipSource ==
    /\ pc = "main_sources"
    /\ step <= Len(AllSources)
    /\ AllSources[step] \notin Range(use_sources)
    /\ step' = step + 1
    /\ UNCHANGED <<pc, use_sources, attempted, returned, records, save_calls,
                   out_dir_made, out_files, dedupVars, mainFrame>>

\* mutant: all_records = records
extend_Assign(list, recs) == recs

\* all_records.extend(records)
extend(list, recs) == list \o recs

\* the block of a named source: the source function is called and returns
\* its records, or [] when an exception was caught in its try block
MainAttemptSource ==
    /\ pc = "main_sources"
    /\ step <= Len(AllSources)
    /\ AllSources[step] \in Range(use_sources)
    /\ \E fails \in BOOLEAN, pg \in MainPages(AllSources[step]) :
          /\ fails => pg = CHOOSE q \in MainPages(AllSources[step]) : TRUE
          /\ records' = IF fails THEN <<>> ELSE SourceCall(AllSources[step], pg, limit)
          /\ attempted' = Append(attempted,
                                 [source  |-> AllSources[step],
                                  outcome |-> IF fails THEN "failed" ELSE "returned"])
    /\ returned' = Append(returned, records')
    /\ all_records' = extend(all_records, records')
    /\ step' = step + 1
    /\ UNCHANGED <<pc, use_sources, save_calls, out_dir_made, out_files,
                   unique_records, similarity_threshold, mainFrame>>

\* fetch_yahoo_finance_rss: `import feedparser` stands ahead of the try
\* block, so its ImportError leaves the function and main
MainSourceRaises ==
    /\ pc = "main_sources"
    /\ step <= Len(AllSources)
    /\ AllSources[step] = "yahoo"
    /\ AllSources[step] \in Range(use_sources)
    /\ attempted' = Append(attempted, [source |-> "yahoo", outcome |-> "raised"])
    /\ pc' = "main_raised"
    /\ UNCHANGED <<step, use_sources, returned, records, save_calls, out_dir_made,
                   out_files, dedupVars, mainFrame>>

\* mutant: the empty aggregate is not told apart
NoData_Never(recs) == FALSE

\* `if not all_records:`
NoData(recs) == recs = <<>>

\* nothing was collected: the troubleshooting text is printed, main returns
MainReturnEmpty ==
    /\ pc = "main_sources"
    /\ step > Len(AllSources)
    /\ NoData(all_records)
    /\ pc' = "main_returned"
    /\ UNCHANGED <<step, use_sources, attempted, returned, records, save_calls,
                   out_dir_made, out_files, dedupVars, mainFrame>>

\* unique_records = remove_similar_duplicates(all_records, similarity_threshold=0.7)
MainDedup ==
    /\ pc = "main_sources"
    /\ step > Len(AllSources)
    /\ ~NoData(all_records)
    /\ similarity_threshold' = [num |-> 7, den |-> 10]
    /\ unique_records' = remove_similar_duplicates(all_records, similarity_threshold')
    /\ pc' = "main_deduped"
    /\ UNCHANGED <<step, use_sources, attempted, returned, records, save_calls,
                   out_dir_made, out_files, all_records, mainFrame>>

\* out_path = save_with_metadata(unique_records, Path(args.out_dir)); the
\* summary is printed and main returns
MainSave ==
    /\ pc = "main_deduped"
    /\ save_calls' = Append(save_calls, unique_records)
    /\ out_dir_made' = TRUE
    /\ out_files' = Append(out_files, save_with_metadata(unique_records))
    /\ pc' = "main_returned"
    /\ UNCHANGED <<step, use_sources, attempted, returned, records, dedupVars, mainFrame>>

NextMain ==
    \/ MainSelect
    \/ MainSkipSource
    \/ MainAttemptSource
    \/ MainSourceRaises
    \/ MainReturnEmpty
    \/ MainDedup
    \/ MainSave

SpecMain == InitMain /\ [][NextMain]_vars

\* a is an initial part of b
IsPrefix(a, b) == Len(a) <= Len(b) /\ SubSeq(b, 1, Len(a)) = a

\* the names given with --sources, "all" standing for the four sources, in
\* the fixed order
NamedInOrder ==
    LET Named(s) == s \in Range(args_sources) \/ "all" \in Range(args_sources)
    IN  SelectSeq(<<"investegate", "lse", "yahoo", "sharecast">>, Named)

AttemptedNames == [k \in 1..Len(attempted) |-> attempted[k].source]

MainEnded == pc \in {"main_returned", "main_raised"}

\* C11: explicit-list orchestration: main attempts exactly the named sources
\* (all four for "all"), each once, in the order investegate, lse, yahoo,
\* sharecast, whatever earlier sources returned or however they failed; no
\* unnamed source is attempted.
C11_ExactlyNamed ==
    /\ IsPrefix(AttemptedNames, NamedInOrder)
    /\ MainEnded => AttemptedNames = NamedInOrder

\* C12: the aggregate is the in-order concatenation of the full result of
\* every attempted source: the list only grows at its end, nothing returned is
\* dropped or reordered, and it is empty exactly when every attempted source
\* returned an empty list.
C12_Aggregate ==
    [][/\ IsPrefix(all_records, all_records')
       /\ all_records' = Flatten(returned')
       /\ (all_records' = <<>>) <=> (\A k \in 1..Len(returned') : returned'[k] = <<>>)]_vars

\* C12 witness: two sources returned records, a later one returned nothing,
\* and the aggregate handed on holds the records of both
C12_Witness ==
    /\ pc = "main_deduped"
    /\ Len(returned) >= 3
    /\ returned[1] # <<>>
    /\ returned[2] # <<>>
    /\ returned[3] = <<>>
    /\ all_records = returned[1] \o returned[2] \o Flatten(SubSeq(returned, 3, Len(returned)))
    /\ Len(all_records) > Len(returned[1])

\* C13: per-source failure isolation: an exception raised while a source
\* function is attempted is caught within that attempt, the source then
\* contributes no record, and main is not aborted.
C13_FailureIsolated ==
    /\ pc # "main_raised"
    /\ \A k \in 1..Len(attempted) :
          /\ attempted[k].outcome # "raised"
          /\ attempted[k].outcome = "failed" => returned[k] = <<>>

\* every source attempted so far returned, and returned no record
AllReturnedEmpty ==
    /\ Len(returned) = Len(attempted)
    /\ \A k \in 1..Len(returned) : returned[k] = <<>>

\* C14: a run in which every attempted source returns zero records never
\* calls save_with_metadata, creates no file and no directory, and returns
\* normally.
C14_EmptyRunWritesNothing ==
    AllReturnedEmpty =>
        /\ save_calls = <<>>
        /\ out_files = <<>>
        /\ ~out_dir_made
        /\ pc \in {"main_start", "main_sources", "main_returned"}
        /\ (pc = "main_sources" /\ step > 4) => ENABLED MainReturnEmpty

\* C14 witness: main returned after two sources came back empty, one of them
\* by a caught failure
C14_Witness ==
    /\ pc = "main_returned"
    /\ Len(attempted) >= 2
    /\ AllReturnedEmpty
    /\ \E k \in 1..Len(attempted) : attempted[k].outcome = "failed"
    /\ \E k \in 1..Len(attempted) : attempted[k].outcome = "returned"
    /\ limit > 0
    /\ out_files = <<>>

\* C15: for a list of N records the file has N + 1 lines, the metadata object
\* first and then the N records in list order, each once; main calls the
\* writer at most once, with the deduplicated list.
C15_FileLines ==
    /\ Len(save_calls) <= 1
    /\ Len(out_files) = Len(save_calls)
    /\ \A f \in 1..Len(out_files) :
          /\ Len(out_files[f]) = Len(save_calls[f]) + 1
          /\ DOMAIN out_files[f][1].json = {"_metadata"}
          /\ \A i \in 1..Len(save_calls[f]) :
                out_files[f][i + 1] = [json |-> save_calls[f][i]]
          /\ save_calls[f] = unique_records
          /\ IsSubsequence(unique_records, all_records)

\* C15 witness: a file of a metadata line and three record lines was written
\* from an aggregate the deduplicator had shortened
C15_Witness ==
    /\ pc = "main_returned"
    /\ Len(out_files) = 1
    /\ Len(out_files[1]) = 4
    /\ Len(unique_records) = 3
    /\ Len(all_records) > 3

(***************************************************************************)
(* Specification SpecFeedsFirst: the feeds-first strategy.  The registry   *)
(* WORKING_SOURCES is declared in download_rns.py; the orchestrator that   *)
(* walks it by tiers is not among the sources at hand, and is modelled     *)
(* from the specification text: every feed in order; if the aggregate is   *)
(* empty, the alternate feeds; if still empty, every scrape-type source.   *)
(***************************************************************************)
\* name, type and priority of the registry entries, in declaration order
WORKING_SOURCES == <<
    [name |-> "Investegate_Direct", type |-> "scrape", priority |-> 1],
    [name |-> "Investegate_Search", type |-> "scrape", priority |-> 1],
    [name |-> "LSE_News_Direct",    type |-> "scrape", priority |-> 2],
    [name |-> "ShareCast_UK",       type |-> "scrape", priority |-> 2],
    [name |-> "Morningstar_UK",     type |-> "scrape", priority |-> 3],
    [name |-> "Yahoo_Finance_UK",   type |-> "rss",    priority |-> 3],
    [name |-> "Proactive_UK",       type |-> "scrape", priority |-> 3] >>

\* the names of the registry entries of one type, in order
NamesOfType(type) ==
    LET OfType(e) == e.type = type
        entries == SelectSeq(WORKING_SOURCES, OfType)
    IN  [i \in 1..Len(entries) |-> entries[i].name]

\* the secondary list of alternate feeds
AlternateFeeds == <<"Alternate_Feed_1", "Alternate_Feed_2">>

\* the sources of a tier, in the order they are tried
TierSources(tier) ==
    CASE tier = "ff_feeds"      -> NamesOfType("rss")
      [] tier = "ff_alternates" -> AlternateFeeds
      [] tier = "ff_scrapes"    -> NamesOfType("scrape")

\* the tier after this one
NextTier(tier) ==
    CASE tier = "ff_feeds"      -> "ff_alternates"
      [] tier = "ff_alternates" -> "ff_scrapes"
      [] tier = "ff_scrapes"    -> "ff_done"

\* what a source of the strategy returns when it finds an item
TierRecords(name) ==
    <<ScrapedRecord(clean_text(RawValidTitle(1, 1)), ItemLinks[3], <<>>, <<"r","n","s">>,
                    name, name, name, 1)>>

InitFeedsFirst ==
    /\ pc = "ff_feeds"
    /\ step = 1
    /\ attempted = <<>>
    /\ returned = <<>>
    /\ all_records = <<>>
    /\ args_sources = <<>> /\ use_sources = <<>> /\ save_calls = <<>>
    /\ out_dir_made = FALSE /\ out_files = <<>>
    /\ unique_records = <<>> /\ idx = 1 /\ rerun = <<>>
    /\ similarity_threshold = [num |-> 0, den |-> 1]
    /\ NormIdle /\ EnrichIdle /\ ScrapeIdle

feedsFirstFrame == <<args_sources, use_sources, save_calls, out_dir_made, out_files,
                     unique_records, idx, similarity_threshold, rerun,
                     normVars, enrichVars, scrapeVars>>

\* the next source of the tier is tried: it returns records, or nothing, or
\* fails and counts as empty
FeedsFirstAttempt ==
    /\ pc \in {"ff_feeds", "ff_alternates", "ff_scrapes"}
    /\ step <= Len(TierSources(pc))
    /\ \E outcome \in {"returned", "empty", "failed"} :
          LET name == TierSources(pc)[step]
              recs == IF outcome = "returned" THEN TierRecords(name) ELSE <<>>
          IN  /\ attempted' = Append(attempted,
                      [source  |-> name,
                       outcome |-> IF outcome = "failed" THEN "failed" ELSE "returned"])
              /\ returned' = Append(returned, recs)
              /\ all_records' = extend(all_records, recs)
    /\ step' = step + 1
    /\ UNCHANGED <<pc, feedsFirstFrame>>

\* mutant: the next tier is entered whatever the aggregate holds
TierOpens_Always(aggregate) == TRUE

\* the next tier is entered only if the aggregate result is empty
TierOpens(aggregate) == aggregate = <<>>

\* the tier is exhausted: on to the next one, or the collection is over
FeedsFirstAdvance ==
    /\ pc \in {"ff_feeds", "ff_alternates", "ff_scrapes"}
    /\ step > Len(TierSources(pc))
    /\ pc' = IF TierOpens(all_records) THEN NextTier(pc) ELSE "ff_done"
    /\ step' = 1
    /\ UNCHANGED <<attempted, returned, all_records, feedsFirstFrame>>

NextFeedsFirst == FeedsFirstAttempt \/ FeedsFirstAdvance

SpecFeedsFirst == InitFeedsFirst /\ [][NextFeedsFirst]_vars

\* the attempts, by position, that went to a source of the given kind
AttemptsOf(names) == {k \in 1..Len(attempted) : attempted[k].source \in names}

FeedNames == {"Yahoo_Finance_UK"}
AlternateNames == {"Alternate_Feed_1", "Alternate_Feed_2"}
ScrapeNames == {"Investegate_Direct", "Investegate_Search", "LSE_News_Direct",
                "ShareCast_UK", "Morningstar_UK", "Proactive_UK"}

\* C16: feeds-first tiering: every feed is attempted before any page-scrape
\* source; alternate feeds are attempted only if the feeds' aggregate is
\* empty; page-scrape sources only if the aggregate is still empty after the
\* alternate feeds; once a feed has returned a record no page-scrape source is
\* attempted.
C16_FeedsFirst ==
    /\ \A a \in AttemptsOf(AlternateNames) :
          /\ \A f \in FeedNames : \E k \in AttemptsOf({f}) : k < a
          /\ \A k \in AttemptsOf(FeedNames) : returned[k] = <<>>
    /\ \A c \in AttemptsOf(ScrapeNames) :
          /\ \A f \in FeedNames \cup AlternateNames : \E k \in AttemptsOf({f}) : k < c
          /\ \A k \in AttemptsOf(FeedNames \cup AlternateNames) : returned[k] = <<>>
    /\ (\E k \in AttemptsOf(FeedNames) : returned[k] # <<>>)
          => AttemptsOf(ScrapeNames) = {}

\* C16 witness: the feed and both alternate feeds came back empty, and the
\* scrape sources were tried until one returned a record
C16_Witness ==
    /\ pc = "ff_done"
    /\ Len(attempted) = 9
    /\ AttemptsOf(ScrapeNames) = 4..9
    /\ all_records # <<>>
    /\ returned[1] = <<>> /\ returned[2] = <<>> /\ returned[3] = <<>>

(***************************************************************************)
(* Further properties of the source functions (SpecScrape)                 *)
(***************************************************************************)
\* the hyperlinks of the page whose text has an announcement-indicator
\* keyword and exceeds the minimum length
QualifyingLinks ==
    {i \in 1..Len(page.all_links) :
        LET t == clean_text(page.all_links[i][2])
        IN  /\ Len(t) > FallbackMinLen
            /\ \E w \in {<<"r","n","s">>, <<"a","n","n","o","u","n","c","e","s">>,
                         <<"r","e","s","u","l","t","s">>, <<"u","p","d","a","t","e">>,
                         <<"d","i","v","i","d","e","n","d">>,
                         <<"a","c","q","u","i","s","i","t","i","o","n">>,
                         <<"a","p","p","o","i","n","t">>} : Contains(lower(t), w)}

\* C17: loose fallback: for each of the three page scrapers and an item cap
\* of at least 1, a fetched page on which no structural pattern yields a
\* record but which has a hyperlink whose text has an indicator keyword and
\* exceeds the minimum length yields at least one record.
C17_LooseFallback ==
    (/\ pc = "scrape_returned"
     /\ source \in Scrapers
     /\ limit >= 1
     /\ \A p \in 1..NumPatterns(source) :
           PatternRecords(source, Slice(page.matches[p], limit)) = <<>>
     /\ QualifyingLinks # {})
        => result # <<>>

\* the title passes the structural test the specification states: at least
\* ten characters and not a generic filler phrase, whatever its case
ValidTitle(t) ==
    /\ Len(t) >= 10
    /\ lower(t) \notin {<<"m","o","r","e">>, <<"r","e","a","d"," ","m","o","r","e">>,
                        <<"c","l","i","c","k"," ","h","e","r","e">>}

\* the patterns with a structurally valid match anywhere on the page
PatternsWithValidMatch ==
    {p \in 1..NumPatterns(source) :
        \E i \in 1..Len(page.matches[p]) : ValidTitle(clean_text(page.matches[p][i][2]))}

\* C19: for an item cap of at least 1, the pattern that determines the result
\* set is the first one, in list order, with a structurally valid match
\* anywhere among its matches on the page; a pattern is passed over only when
\* none of its matches is structurally valid.
C19_FirstValidAnywhere ==
    (/\ pc = "scrape_returned"
     /\ source \in Scrapers
     /\ limit >= 1
     /\ PatternsWithValidMatch # {})
        => /\ Len(tried) = Min(PatternsWithValidMatch)
           /\ result # <<>>
           /\ \A i \in 1..Len(result) :
                 \E j \in 1..Len(page.matches[Len(tried)]) :
                     result[i].title = clean_text(page.matches[Len(tried)][j][2])

\* C20: every record a scraper returns, on a structured path or on the
\* fallback path, is structurally valid: its title has at least 10 characters
\* and is none of "more", "read more", "click here" in any case.
C20_RecordsValid ==
    (pc = "scrape_returned" /\ source \in Scrapers)
        => \A i \in 1..Len(result) : ValidTitle(result[i].title)

(***************************************************************************)
(* Empty and token-less titles in remove_similar_duplicates (SpecDedup)    *)
(***************************************************************************)
\* the title is empty or holds white space only
Tokenless(t) == \A i \in 1..Len(t) : t[i] \in Whitespace

\* C18: the similarity of two titles is 0 whenever either is empty or
\* token-less, so a record with such a title is never discarded and never
\* causes a record to be discarded, for every threshold from 0.0 to 1.0.
C18_TokenlessNeverDuplicate ==
    [][(pc = "dedup_loop" /\ idx' = idx + 1) =>
          /\ \A k \in 1..Len(unique_records) :
                (Tokenless(all_records[idx].title) \/ Tokenless(unique_records[k].title))
                    => similarity(all_records[idx].title, unique_records[k].title).num = 0
          /\ Tokenless(all_records[idx].title)
                => unique_records' = Append(unique_records, all_records[idx])
          /\ (\A k \in 1..Len(unique_records) : Tokenless(unique_records[k].title))
                => unique_records' = Append(unique_records, all_records[idx])]_vars

\* C18 witness: with threshold 0.0, three records without a token in the
\* title, one of them a single blank and two of them empty, were all kept
C18_Witness ==
    /\ pc = "dedup_returned"
    /\ similarity_threshold.num = 0
    /\ Len(unique_records) = 3
    /\ \A k \in 1..3 : Tokenless(unique_records[k].title)
    /\ \E k \in 1..3 : unique_records[k].title # <<>>
    /\ \E j, k \in 1..3 : j # k /\ unique_records[j].title = <<>>
                                /\ unique_records[k].title = <<>>

(***************************************************************************)
(* The per-source item cap (SpecMain)                                      *)
(***************************************************************************)
\* C21: per-source item cap: for every cap limit >= 0 each source function
\* returns at most limit records, whichever path produced them, so the
\* aggregate of a run has at most limit times the number of attempted sources
\* records.
C21_ItemCap ==
    /\ \A k \in 1..Len(returned) : Len(returned[k]) <= limit
    /\ Len(all_records) <= limit * Len(attempted)

\* C21 witness: with cap 1 each of the four sources met a page or feed with
\* more than one item and returned exactly one record
C21_Witness ==
    /\ pc = "main_deduped"
    /\ limit = 1
    /\ Len(returned) = 4
    /\ \A k \in 1..4 : Len(returned[k]) = 1
    /\ Len(all_records) = 4

(***************************************************************************)
(* Idempotence of remove_similar_duplicates (SpecDedup)                    *)
(***************************************************************************)
\* C22: remove_similar_duplicates is idempotent for a fixed threshold: in
\* its output no two records have a title similarity strictly above the
\* threshold, and applied again with the same threshold to its own output it
\* returns that output unchanged, same records in the same order.
C22_Idempotent ==
    /\ pc \in {"dedup_returned", "dedup_rerun"} =>
          \A j, k \in 1..Len(unique_records) :
              j # k => ~JaccardAbove(unique_records[j].title, unique_records[k].title,
                                     similarity_threshold)
    /\ pc = "dedup_rerun" => rerun = unique_records

\* C22 witness: the first pass dropped a record and kept two that share
\* tokens; the second pass returned the same list
C22_Witness ==
    /\ pc = "dedup_rerun"
    /\ Len(unique_records) >= 2
    /\ Len(unique_records) < Len(all_records)
    /\ rerun = unique_records
    /\ \E j, k \in 1..Len(unique_records) :
          /\ j < k
          /\ TokenSet(unique_records[j].title) \cap TokenSet(unique_records[k].title) # {}

(***************************************************************************)
(* The metadata line and the record lines of a written file (SpecMain)     *)
(***************************************************************************)
RECURSIVE SumOver(_, _)
\* the sum of f over the keys in S
SumOver(f, S) ==
    IF S = {} THEN 0
    ELSE LET x == CHOOSE y \in S : TRUE
         IN  f[x] + SumOver(f, S \ {x})

\* C23: the metadata of a file is consistent with the records written in it:
\* total_records is the number of record lines, the per-source counts sum to
\* it and so do the per-rns_type counts, every listed count is at least 1, and
\* unique_companies <= companies_identified <= total_records and
\* unique_tickers <= tickers_identified <= total_records.
C23_MetadataConsistent ==
    \A f \in 1..Len(out_files) :
        LET md == out_files[f][1].json._metadata
        IN  /\ md.total_records = Len(out_files[f]) - 1
            /\ \A i \in 2..Len(out_files[f]) :
                  /\ out_files[f][i].json.source \in DOMAIN md.sources
                  /\ out_files[f][i].json.rns_type \in DOMAIN md.rns_types
            /\ SumOver(md.sources, DOMAIN md.sources) = md.total_records
            /\ SumOver(md.rns_types, DOMAIN md.rns_types) = md.total_records
            /\ \A s \in DOMAIN md.sources : md.sources[s] >= 1
            /\ \A t \in DOMAIN md.rns_types : md.rns_types[t] >= 1
            /\ md.unique_companies <= md.companies_identified
            /\ md.companies_identified <= md.total_records
            /\ md.unique_tickers <= md.tickers_identified
            /\ md.tickers_identified <= md.total_records

\* C23 witness: a file with records of two sources, some with a ticker and
\* some without, two of them with the same ticker
C23_Witness ==
    /\ pc = "main_returned"
    /\ Len(out_files) = 1
    /\ LET md == out_files[1][1].json._metadata
       IN  /\ md.total_records >= 3
           /\ Cardinality(DOMAIN md.sources) >= 2
           /\ md.unique_tickers >= 1
           /\ md.unique_tickers < md.tickers_identified
           /\ md.tickers_identified < md.total_records

====
